---------------------------- MODULE Spec2Model ----------------------------
(***************************************************************************)
(* A model of tweet2elasticsearch.py: the record extractor (gen_tweets),   *)
(* the duplicate detector (already_indexed), the batch indexer             *)
(* (record_tweets) and the two source walkers (walk_local_directory,       *)
(* walk_bucket), run against one shared Elasticsearch index, and the       *)
(* query builder (construct_query) with the query command.                 *)
(*                                                                         *)
(* Strings whose letter case or slicing matters (md5, etag, file names)    *)
(* are sequences of one-character strings.  Python's None is the value     *)
(* None below; a Python exception ends the call that raised it and is      *)
(* recorded as the status "raised"/"crashed" with the exception's name.    *)
(***************************************************************************)
EXTENDS Integers, Sequences, FiniteSets, TLC

VARIABLES content, gen, registry, tweets, run, api, cmd

vars == <<content, gen, registry, tweets, run, api, cmd>>

None == <<"None">>

(***************************************************************************)
(* Bounds of the model.                                                    *)
(***************************************************************************)
MaxLines == 3

(***************************************************************************)
(* str.lower(), character by character.                                    *)
(***************************************************************************)
LowerChar(c) ==
    CASE c = "A" -> "a"
      [] c = "B" -> "b"
      [] c = "C" -> "c"
      [] c = "D" -> "d"
      [] c = "E" -> "e"
      [] c = "F" -> "f"
      [] OTHER -> c

Lower(s) == [i \in 1..Len(s) |-> LowerChar(s[i])]

(***************************************************************************)
(* The lines of a decompressed sample file.  A line is its parse result    *)
(* (what json.loads(unicode(line)) does with it) and its length in the     *)
(* content, the trailing newline included.                                 *)
(*   ok = FALSE : json.loads raises                                        *)
(*   ok = TRUE  : json.loads returns the dict obj                          *)
(*   empty      : the line is exactly "\n"                                 *)
(***************************************************************************)
EmptyLine == [empty |-> TRUE, ok |-> FALSE, obj |-> [none |-> 0], len |-> 1]

MalformedLine == [empty |-> FALSE, ok |-> FALSE, obj |-> [none |-> 0], len |-> 2]

TweetLine1 ==
    [empty |-> FALSE, ok |-> TRUE, len |-> 3,
     obj |-> [id |-> 1, text |-> "hi", created_at |-> "d1",
              user |-> [screen_name |-> "a"],
              entities |-> [user_mentions |-> <<>>, hashtags |-> <<>>]]]

TweetLine2 ==
    [empty |-> FALSE, ok |-> TRUE, len |-> 4,
     obj |-> [id |-> 2, text |-> "yo", created_at |-> "d2",
              user |-> [screen_name |-> "b"],
              entities |-> [user_mentions |-> <<[screen_name |-> "a"]>>,
                            hashtags |-> <<[text |-> "h"]>>]]]

DeleteLine ==
    [empty |-> FALSE, ok |-> TRUE, len |-> 3,
     obj |-> [delete |-> [status |-> [id |-> 1]]]]

NoIdLine ==
    [empty |-> FALSE, ok |-> TRUE, len |-> 2,
     obj |-> [limit |-> [track |-> 5]]]

BareIdLine ==
    [empty |-> FALSE, ok |-> TRUE, len |-> 2,
     obj |-> [id |-> 3]]

Lines == {EmptyLine, MalformedLine, TweetLine1, TweetLine2, DeleteLine,
          NoIdLine, BareIdLine}

Contents == UNION {[1..n -> Lines] : n \in 0..MaxLines}

\* The keys gen_tweets reads from a tweet besides "id".
TweetKeys == {"user", "text", "created_at", "entities"}

IsValidTweet(line) ==
    /\ ~line.empty
    /\ line.ok
    /\ "delete" \notin DOMAIN line.obj
    /\ "id" \in DOMAIN line.obj
    /\ TweetKeys \subseteq DOMAIN line.obj

RECURSIVE StartOf(_, _)
\* The position in the content at which line i begins.
StartOf(c, i) == IF i = 1 THEN 0 ELSE StartOf(c, i - 1) + c[i - 1].len

(***************************************************************************)
(* gen_tweets.  Unbound is the local variable uline before its first       *)
(* assignment.  GenStep is one iteration of the for loop (lines 114-150).  *)
(***************************************************************************)
Unbound == [unbound |-> TRUE]

RECURSIVE LastSlash(_, _)
\* The index of the last "/" among the first n characters of s, or 0.
LastSlash(s, n) ==
    IF n = 0 THEN 0 ELSE IF s[n] = "/" THEN n ELSE LastSlash(s, n - 1)

\* os.path.basename: what follows the last "/".
Basename(filepath) ==
    SubSeq(filepath, LastSlash(filepath, Len(filepath)) + 1, Len(filepath))

GenInit ==
    [pos |-> 0, offset |-> 0, uline |-> Unbound, out |-> <<>>,
     warns |-> 0, status |-> "running", exc |-> "none"]

ScreenNames(ms) == [i \in 1..Len(ms) |-> ms[i].screen_name]

Texts(hs) == [i \in 1..Len(hs) |-> hs[i].text]

TweetAction(filepath, offset, u) ==
    [_index |-> "sample-index", _type |-> "tweet", _id |-> u.id,
     _source |-> [file |-> Basename(filepath), offset |-> offset, id |-> u.id,
                  screen_name |-> u.user.screen_name, text |-> u.text,
                  created_at |-> u.created_at,
                  user_mentions |-> ScreenNames(u.entities.user_mentions),
                  hashtags |-> Texts(u.entities.hashtags)]]

\* uline after the try/except of lines 116-119: the except clause only logs,
\* so a line that fails to parse leaves uline as it was.
ParsedUline(g, line) == IF line.ok THEN line.obj ELSE g.uline

TellStuck(g, line) == g.offset

\* Line 150: file_contents.tell() once the line has been read is the
\* position at which the next line begins.
Tell(g, line) == g.offset + line.len

GenStep(filepath, g, line) ==
    LET u == ParsedUline(g, line)
        w == IF line.ok THEN g.warns ELSE g.warns + 1
        next == [g EXCEPT !.pos = g.pos + 1, !.offset = Tell(g, line)]
    IN
    IF line.empty THEN next
    ELSE IF u = Unbound
         THEN [g EXCEPT !.pos = g.pos + 1, !.warns = w, !.status = "raised",
                        !.exc = "UnboundLocalError"]
    ELSE IF "delete" \in DOMAIN u THEN [next EXCEPT !.warns = w, !.uline = u]
    ELSE IF "id" \notin DOMAIN u
         THEN [next EXCEPT !.warns = w + 1, !.uline = u]
    ELSE IF ~(TweetKeys \subseteq DOMAIN u)
         THEN [g EXCEPT !.pos = g.pos + 1, !.warns = w, !.uline = u,
                        !.status = "raised", !.exc = "KeyError"]
    ELSE [next EXCEPT !.warns = w, !.uline = u,
                      !.out = Append(g.out, TweetAction(filepath, g.offset, u))]

\* The for loop ends when the content is exhausted.
GenEnd(g) == [g EXCEPT !.status = "done"]

RECURSIVE GenRun(_, _, _)
\* The generator consumed to its end, as helpers.bulk consumes it.
GenRun(filepath, c, g) ==
    IF g.status # "running" THEN g
    ELSE IF g.pos = Len(c) THEN GenEnd(g)
    ELSE GenRun(filepath, c, GenStep(filepath, g, c[g.pos + 1]))

GenFile == <<"s", "a", "m", "p", "l", "e", "-", "1", ".", "g", "z">>

(***************************************************************************)
(* SpecGen: gen_tweets over every content of at most MaxLines lines,       *)
(* one loop iteration per step.                                            *)
(***************************************************************************)
GenIdleRest ==
    /\ registry = {}
    /\ tweets = {}
    /\ run = <<>>
    /\ api = <<>>
    /\ cmd = <<>>

InitGen ==
    /\ content \in Contents
    /\ gen = GenInit
    /\ GenIdleRest

GenIterate ==
    /\ gen.status = "running"
    /\ gen.pos < Len(content)
    /\ gen' = GenStep(GenFile, gen, content[gen.pos + 1])
    /\ UNCHANGED <<content, registry, tweets, run, api, cmd>>

GenExhausted ==
    /\ gen.status = "running"
    /\ gen.pos = Len(content)
    /\ gen' = GenEnd(gen)
    /\ UNCHANGED <<content, registry, tweets, run, api, cmd>>

NextGen == GenIterate \/ GenExhausted

SpecGen == InitGen /\ [][NextGen]_vars

(***************************************************************************)
(* Claims about gen_tweets.                                                *)
(***************************************************************************)
RECURSIVE ValidIdx(_, _)
\* The indexes of the valid tweet lines among the first n lines, in order.
ValidIdx(c, n) ==
    IF n = 0 THEN <<>>
    ELSE IF IsValidTweet(c[n]) THEN Append(ValidIdx(c, n - 1), n)
    ELSE ValidIdx(c, n - 1)

\* C1: when gen_tweets has gone through a content, it has yielded exactly
\* one record per valid tweet line, in line order, and none for other lines.
C1_OneRecordPerValidLine ==
    gen.status = "done" =>
        LET v == ValidIdx(content, Len(content)) IN
        /\ Len(gen.out) = Len(v)
        /\ \A k \in 1..Len(v) : gen.out[k]._id = content[v[k]].obj.id

\* C4: gen_tweets never raises to its caller, whatever the lines are.
C4_NeverRaises == gen.status # "raised"

\* C6: every yielded record carries as offset the position at which the
\* line its id and text were parsed from begins.
C6_OffsetIsOwnLineStart ==
    \A k \in 1..Len(gen.out) :
        \E i \in 1..Len(content) :
            /\ StartOf(content, i) = gen.out[k]._source.offset
            /\ content[i].ok
            /\ "id" \in DOMAIN content[i].obj
            /\ content[i].obj.id = gen.out[k]._id
            /\ "text" \in DOMAIN content[i].obj
            /\ content[i].obj.text = gen.out[k]._source.text

\* C19: the offsets of the records gen_tweets has yielded for a content are
\* strictly increasing in yield order, and the first record's offset is 0
\* exactly when the first line of the content is the one that yielded it.
C19_OffsetsStrictlyIncrease ==
    /\ \A k \in 1..(Len(gen.out) - 1) :
          gen.out[k]._source.offset < gen.out[k + 1]._source.offset
    /\ Len(gen.out) >= 1 =>
          (gen.out[1]._source.offset = 0 <=> IsValidTweet(content[1]))

\* Two records were yielded from a content whose first line yields none.
C19_Witness ==
    /\ gen.status = "done"
    /\ Len(gen.out) >= 2
    /\ ~IsValidTweet(content[1])
    /\ gen.out[1]._source.offset > 0

(***************************************************************************)
(* The Elasticsearch index "sample-index": the file registry (documents    *)
(* of type "file") and the tweet documents (type "tweet"), both sets of    *)
(* [id, src] with at most one document per id.  A JSON value of a file     *)
(* document is a string or an array of strings.                            *)
(***************************************************************************)
JStr(s) == [t |-> "str", v |-> s]

JArr(a) == [t |-> "arr", v |-> a]

\* A term matches a field holding that string, or an array with it among
\* its elements (the fields are not_analyzed, lines 30-41).
TermMatches(val, x) ==
    IF val.t = "str" THEN val.v = x
    ELSE \E i \in 1..Len(val.v) : val.v[i] = x

\* es.search(index, doc_type="file", q="<field>:<x>")
EsSearchFile(reg, field, x) ==
    {d \in reg : field \in DOMAIN d.src /\ TermMatches(d.src[field], x)}

\* es.index(index, doc_type, body) without an id: a new document under an
\* id the engine generates.
EsIndexAutoId(reg, id, src) ==
    reg \cup {[id |-> <<"auto", Cardinality(reg)>>, src |-> src]}

EsIndexKeepFirst(reg, id, src) ==
    IF \E d \in reg : d.id = id THEN reg
    ELSE reg \cup {[id |-> id, src |-> src]}

\* es.index(index, doc_type, body, id=id): the document with that id is
\* created or replaced.
EsIndex(reg, id, src) ==
    {d \in reg : d.id # id} \cup {[id |-> id, src |-> src]}

RECURSIVE BulkApply(_, _, _, _)
\* helpers.bulk: the actions are indexed in order under their _id, those the
\* engine rejects excepted (rejected: the positions of the rejected actions).
BulkApply(tw, actions, rejected, n) ==
    IF n = 0 THEN tw
    ELSE LET before == BulkApply(tw, actions, rejected, n - 1) IN
         IF n \in rejected THEN before
         ELSE EsIndex(before, actions[n]._id, actions[n]._source)

(***************************************************************************)
(* already_indexed and record_tweets.                                      *)
(***************************************************************************)
\* Python truth of an optional string: neither None nor empty.
Truthy(s) == s # None /\ s # <<>>

AlreadyIndexedMd5Only(reg, md5, etag) ==
    Truthy(md5) /\ EsSearchFile(reg, "md5", Lower(md5)) # {}

AlreadyIndexed(reg, md5, etag) ==
    IF Truthy(md5) /\ EsSearchFile(reg, "md5", Lower(md5)) # {} THEN TRUE
    ELSE IF Truthy(etag) /\ EsSearchFile(reg, "etag", Lower(etag)) # {} THEN TRUE
    ELSE FALSE

\* Line 338 evaluates md5.lower() and etag.lower() as arguments of log.debug:
\* AttributeError when either is None.
NeverRaises(md5, etag) == FALSE

RecordTweetsRaises(md5, etag) == md5 = None \/ etag = None

\* The body of the file document, lines 329-336.  Line 334 ends in a comma,
\* so s['md5'] is the 1-tuple (md5.lower(),), an array in JSON.
FileDoc(filepath, md5, etag) ==
    LET f == JStr(Basename(filepath))
        m == JArr(<<Lower(md5)>>)
        e == JStr(Lower(etag))
    IN
    IF Truthy(md5) /\ Truthy(etag) THEN [file |-> f, md5 |-> m, etag |-> e]
    ELSE IF Truthy(md5) THEN [file |-> f, md5 |-> m]
    ELSE IF Truthy(etag) THEN [file |-> f, etag |-> e]
    ELSE [file |-> f]

\* id=md5 if md5 else etag (line 339)
FileId(md5, etag) == IF Truthy(md5) THEN md5 ELSE etag

RecordFileAutoId(reg, filepath, md5, etag) ==
    EsIndexAutoId(reg, FileId(md5, etag), FileDoc(filepath, md5, etag))

\* Lines 328-339, when line 338 does not raise.
RecordFile(reg, filepath, md5, etag) ==
    EsIndex(reg, FileId(md5, etag), FileDoc(filepath, md5, etag))

(***************************************************************************)
(* The sources the walkers read: a local directory tree and a bucket.      *)
(* The compressed bytes of a file are a name (G1, ...); Gunzip is what     *)
(* gz_file.read() returns for them, or the exception it raises: IOError    *)
(* (GX: not a gzip file, or a failed CRC check) or another one (GZ: a      *)
(* gzip header followed by a damaged deflate stream, for which Python 2's  *)
(* gzip module lets zlib.error through).                                   *)
(***************************************************************************)
MaxCap == 2

Runs == {1, 2}

G1 == <<"G", "1">>

G2 == <<"G", "2">>

G3 == <<"G", "3">>

GX == <<"G", "X">>

GZ == <<"G", "Z">>

Gunzip(data) ==
    CASE data = G1 -> [ok |-> TRUE, exc |-> "none",
                       lines |-> <<TweetLine1, EmptyLine, TweetLine2>>]
      [] data = G2 -> [ok |-> TRUE, exc |-> "none",
                       lines |-> <<TweetLine2, MalformedLine>>]
      [] data = G3 -> [ok |-> TRUE, exc |-> "none",
                       lines |-> <<MalformedLine, TweetLine1>>]
      [] data = GZ -> [ok |-> FALSE, exc |-> "zlib.error", lines |-> <<>>]
      [] OTHER -> [ok |-> FALSE, exc |-> "IOError", lines |-> <<>>]

SamplePrefix == <<"s", "a", "m", "p", "l", "e", "-">>

GzSuffix == <<".", "g", "z">>

SampleName(c) == SamplePrefix \o <<c>> \o GzSuffix

NotesName == <<"n", "o", "t", "e", "s", ".", "g", "z">>

StartsWith(s, p) == Len(s) >= Len(p) /\ SubSeq(s, 1, Len(p)) = p

EndsWith(s, p) ==
    Len(s) >= Len(p) /\ SubSeq(s, Len(s) - Len(p) + 1, Len(s)) = p

\* os.path.join(root, filename)
Join(root, filename) == root \o <<"/">> \o filename

DirD == <<"d">>

DirE == <<"d", "/", "e">>

DirX == <<"x">>

DirY == <<"y">>

DirZ == <<"z">>

DirW == <<"w">>

Dirpaths == {DirD, DirX, DirY, DirZ, DirW}

\* os.walk(dirpath): the (root, files) pairs, top down.
OsWalk(dirpath) ==
    CASE dirpath = DirD ->
           <<[root |-> DirD, files |-> <<SampleName("1"), NotesName>>],
             [root |-> DirE, files |-> <<SampleName("3"), SampleName("2")>>]>>
      [] dirpath = DirX ->
           <<[root |-> DirX, files |-> <<SampleName("9"), SampleName("1")>>]>>
      [] dirpath = DirY ->
           <<[root |-> DirY, files |-> <<SampleName("1")>>]>>
      [] dirpath = DirW ->
           <<[root |-> DirW, files |-> <<SampleName("8"), SampleName("1")>>]>>
      [] OTHER ->
           <<[root |-> DirZ, files |-> <<NotesName, SampleName("9")>>]>>

\* The compressed bytes of the file at a path.
DiskData(path) ==
    CASE path = Join(DirD, SampleName("1")) -> G1
      [] path = Join(DirE, SampleName("3")) -> G2
      [] path = Join(DirE, SampleName("2")) -> G3
      [] path = Join(DirX, SampleName("9")) -> GX
      [] path = Join(DirX, SampleName("1")) -> G1
      [] path = Join(DirY, SampleName("1")) -> G3
      [] path = Join(DirZ, SampleName("9")) -> GX
      [] path = Join(DirW, SampleName("8")) -> GZ
      [] path = Join(DirW, SampleName("1")) -> G2
      [] OTHER -> GX

\* hashlib.md5(x).hexdigest(): lower-case hex digits, distinct for distinct x.
MD5Hex(x) ==
    CASE x = Join(DirD, SampleName("1")) -> <<"a", "1">>
      [] x = Join(DirE, SampleName("3")) -> <<"a", "3">>
      [] x = Join(DirE, SampleName("2")) -> <<"a", "2">>
      [] x = Join(DirX, SampleName("9")) -> <<"b", "9">>
      [] x = Join(DirX, SampleName("1")) -> <<"b", "1">>
      [] x = Join(DirY, SampleName("1")) -> <<"f", "1">>
      [] x = Join(DirZ, SampleName("9")) -> <<"f", "9">>
      [] x = Join(DirW, SampleName("8")) -> <<"e", "8">>
      [] x = Join(DirW, SampleName("1")) -> <<"e", "7">>
      [] x = G1 -> <<"c", "1">>
      [] x = G2 -> <<"c", "2">>
      [] x = G3 -> <<"c", "3">>
      [] x = GX -> <<"c", "4">>
      [] x = GZ -> <<"c", "5">>
      [] OTHER -> <<"0", "0">>

Quoted(s) == <<"\"">> \o s \o <<"\"">>

\* bucket.list(): keys with their quoted ETag.  The third object is a copy
\* of the first; the fourth has the same bytes and a multipart ETag.
BucketList ==
    <<[key |-> <<"t", "/">> \o SampleName("1"), etag |-> Quoted(MD5Hex(G1)),
       data |-> G1],
      [key |-> <<"t", "/">> \o SampleName("2"), etag |-> Quoted(MD5Hex(GX)),
       data |-> GX],
      [key |-> <<"u", "/">> \o SampleName("1"), etag |-> Quoted(MD5Hex(G1)),
       data |-> G1],
      [key |-> <<"v", "/">> \o SampleName("1"),
       etag |-> Quoted(MD5Hex(G1) \o <<"-", "2">>), data |-> G1]>>

\* key.etag[1:-1]
StripQuotes(e) == SubSeq(e, 2, Len(e) - 1)

\* key.md5 after key.get_file(): boto is not part of this repository; the
\* attribute is either still None or the hex md5 of the fetched bytes.
KeyMd5Values(data) == {None, MD5Hex(data)}

(***************************************************************************)
(* A run of one walker (one invocation of index_dir or index_bucket).      *)
(*   pc: idle, walk (at the head of the file loop), fetch (the duplicate   *)
(*       check returned False), record (helpers.bulk returned), done,      *)
(*       crashed (an exception left the walker)                            *)
(*   d, f: position in os.walk's directories and in the directory's files  *)
(*         (f alone: position in the bucket listing)                       *)
(*   rt: the last record_tweets call: none, bulk_raised (an exception     *)
(*       left helpers.bulk), bulk_returned, raised_after_bulk, returned    *)
(*   bulks, frecs, skipped: bulk writes, file records written and files    *)
(*       skipped as already indexed by this run                            *)
(*   after: the runs that had ended when this one started                  *)
(*   errors: the positions of the records the bulk write rejected          *)
(*       (record_tweets' local variable errors), until the call returns    *)
(*   env: AWS_ACCESS_KEY_ID and AWS_SECRET_ACCESS_KEY of the process       *)
(*   ops: the calls made to the storage service and to the index           *)
(***************************************************************************)
IdleRun ==
    [kind |-> "none", pc |-> "idle", dir |-> <<>>, d |-> 0, f |-> 0,
     counter |-> 0, max |-> 0, path |-> <<>>, md5 |-> None, etag |-> None,
     bulks |-> 0, frecs |-> 0, skipped |-> 0, after |-> {}, exc |-> "none",
     rt |-> "none", env |-> <<None, None>>, ops |-> 0, errors |-> {}]

\* os.environ.get(name): None when unset, the value (maybe empty) when set.
EnvValues == {None, <<>>, <<"k">>}

OneCredentialEnough(key_id, secret) == ~Truthy(key_id) /\ ~Truthy(secret)

\* Line 274.
CredentialsMissing(key_id, secret) == ~Truthy(key_id) \/ ~Truthy(secret)

Ended == {v \in Runs : run[v].pc \in {"done", "crashed"}}

Tree(r) == OsWalk(r.dir)

\* filename of the local walker's loop, key.key of the bucket walker's
CurrentName(r) ==
    IF r.kind = "local" THEN Tree(r)[r.d].files[r.f] ELSE BucketList[r.f].key

CurrentData(r) ==
    IF r.kind = "local" THEN DiskData(r.path) ELSE BucketList[r.f].data

Matches(filename) ==
    StartsWith(filename, SamplePrefix) /\ EndsWith(filename, GzSuffix)

\* Lines 268-270 and 294-296: file_counter += 1, then the break.  The local
\* walker's break leaves the loop over one directory's files, and
\* file_counter restarts at 0 with the next directory (line 253).
Counted(r) ==
    LET c == r.counter + 1 IN
    IF r.max # 0 /\ c >= r.max
    THEN IF r.kind = "local"
         THEN [r EXCEPT !.pc = "walk", !.d = r.d + 1, !.f = 1, !.counter = 0]
         ELSE [r EXCEPT !.pc = "done", !.counter = c]
    ELSE [r EXCEPT !.pc = "walk", !.counter = c, !.f = r.f + 1]

ContinuedCounted(r) == Counted(r)

\* The continue of lines 264 and 290: the next file, file_counter untouched.
Continued(r) == [r EXCEPT !.pc = "walk", !.f = r.f + 1]

\* index_dir: walk_local_directory(directory, max_files); max_files None
\* and 0 are both false at line 269 and are both written 0.
StartLocal(w, dirpath, k) ==
    /\ run[w].pc = "idle"
    /\ run' = [run EXCEPT ![w] = [@ EXCEPT !.kind = "local", !.pc = "walk",
                  !.dir = dirpath, !.d = 1, !.f = 1, !.max = k,
                  !.after = Ended]]
    /\ UNCHANGED <<content, gen, registry, tweets, api, cmd>>

\* index_bucket: lines 274-278.  S3Connection() and conn.get_bucket() are
\* the first calls to the storage service.
StartBucket(w, k, key_id, secret) ==
    /\ run[w].pc = "idle"
    /\ run' = [run EXCEPT ![w] =
                 IF CredentialsMissing(key_id, secret)
                 THEN [@ EXCEPT !.kind = "bucket", !.pc = "crashed",
                                !.exc = "Exception", !.max = k,
                                !.env = <<key_id, secret>>, !.after = Ended]
                 ELSE [@ EXCEPT !.kind = "bucket", !.pc = "walk", !.f = 1,
                                !.max = k, !.env = <<key_id, secret>>,
                                !.ops = @ + 1, !.after = Ended]]
    /\ UNCHANGED <<content, gen, registry, tweets, api, cmd>>

\* os.walk is exhausted.
LocalDone(w) ==
    /\ run[w].pc = "walk" /\ run[w].kind = "local"
    /\ run[w].d > Len(Tree(run[w]))
    /\ run' = [run EXCEPT ![w].pc = "done"]
    /\ UNCHANGED <<content, gen, registry, tweets, api, cmd>>

\* The files of one directory are exhausted: line 252's next iteration,
\* and line 253.
LocalNextDir(w) ==
    /\ run[w].pc = "walk" /\ run[w].kind = "local"
    /\ run[w].d <= Len(Tree(run[w]))
    /\ run[w].f > Len(Tree(run[w])[run[w].d].files)
    /\ run' = [run EXCEPT ![w] = [@ EXCEPT !.d = @ + 1, !.f = 1, !.counter = 0]]
    /\ UNCHANGED <<content, gen, registry, tweets, api, cmd>>

\* Line 255 is false for the file name.
LocalOtherName(w) ==
    /\ run[w].pc = "walk" /\ run[w].kind = "local"
    /\ run[w].d <= Len(Tree(run[w]))
    /\ run[w].f <= Len(Tree(run[w])[run[w].d].files)
    /\ ~Matches(CurrentName(run[w]))
    /\ run' = [run EXCEPT ![w].f = @ + 1]
    /\ UNCHANGED <<content, gen, registry, tweets, api, cmd>>

\* Lines 256-258 and 266-270.
LocalCheck(w) ==
    /\ run[w].pc = "walk" /\ run[w].kind = "local"
    /\ run[w].d <= Len(Tree(run[w]))
    /\ run[w].f <= Len(Tree(run[w])[run[w].d].files)
    /\ Matches(CurrentName(run[w]))
    /\ LET filepath == Join(Tree(run[w])[run[w].d].root, CurrentName(run[w]))
           md5 == MD5Hex(filepath)
           r == [run[w] EXCEPT !.path = filepath, !.md5 = md5, !.etag = None,
                               !.ops = @ + 1]
       IN run' = [run EXCEPT ![w] =
                    IF AlreadyIndexed(registry, md5, None)
                    THEN Counted([r EXCEPT !.skipped = @ + 1])
                    ELSE [r EXCEPT !.pc = "fetch"]]
    /\ UNCHANGED <<content, gen, registry, tweets, api, cmd>>

\* bucket.list() is exhausted.
BucketDone(w) ==
    /\ run[w].pc = "walk" /\ run[w].kind = "bucket"
    /\ run[w].f > Len(BucketList)
    /\ run' = [run EXCEPT ![w].pc = "done"]
    /\ UNCHANGED <<content, gen, registry, tweets, api, cmd>>

\* Lines 280-281 and 292-296.
BucketCheck(w) ==
    /\ run[w].pc = "walk" /\ run[w].kind = "bucket"
    /\ run[w].f <= Len(BucketList)
    /\ LET etag == StripQuotes(BucketList[run[w].f].etag)
           r == [run[w] EXCEPT !.path = BucketList[run[w].f].key,
                               !.md5 = None, !.etag = etag, !.ops = @ + 1]
       IN run' = [run EXCEPT ![w] =
                    IF AlreadyIndexed(registry, None, etag)
                    THEN Counted([r EXCEPT !.skipped = @ + 1])
                    ELSE [r EXCEPT !.pc = "fetch"]]
    /\ UNCHANGED <<content, gen, registry, tweets, api, cmd>>

\* key.get_file() is a call to the storage service; the local walker reads
\* the disk.
Fetched(r) == IF r.kind = "bucket" THEN [r EXCEPT !.ops = @ + 1] ELSE r

\* Lines 259-264 and 282-290: gz_file.read() raises.  Only IOError is
\* caught; any other exception leaves the walker.
FetchCorrupt(w) ==
    /\ run[w].pc = "fetch"
    /\ ~Gunzip(CurrentData(run[w])).ok
    /\ run' = [run EXCEPT ![w] =
                 IF Gunzip(CurrentData(@)).exc = "IOError"
                 THEN Continued(Fetched(@))
                 ELSE [Fetched(@) EXCEPT !.pc = "crashed",
                          !.exc = Gunzip(CurrentData(run[w])).exc]]
    /\ UNCHANGED <<content, gen, registry, tweets, api, cmd>>

\* The actions gen_tweets yields for the file the run is at.
Actions(r) ==
    GenRun(CurrentName(r), Gunzip(CurrentData(r)).lines, GenInit).out

IngestRecordFirst(w) ==
    /\ run[w].pc = "fetch"
    /\ Gunzip(CurrentData(run[w])).ok
    /\ registry' = RecordFile(registry, CurrentName(run[w]), run[w].md5,
                              run[w].etag)
    /\ run' = [run EXCEPT ![w] = [@ EXCEPT !.pc = "crashed",
                                           !.rt = "bulk_raised"]]
    /\ UNCHANGED <<content, gen, tweets, api, cmd>>

\* Lines 265 and 291 up to line 323: helpers.bulk consumes gen_tweets and
\* writes the records; an exception of the generator leaves record_tweets
\* and the walker before anything is sent.
Ingest(w) ==
    /\ run[w].pc = "fetch"
    /\ Gunzip(CurrentData(run[w])).ok
    /\ LET r == Fetched(run[w])
           g == GenRun(CurrentName(r), Gunzip(CurrentData(r)).lines, GenInit)
       IN
       \E m \in (IF r.kind = "local" THEN {r.md5} ELSE KeyMd5Values(CurrentData(r))) :
          IF g.status = "raised"
          THEN /\ run' = [run EXCEPT ![w] = [r EXCEPT !.pc = "crashed",
                             !.exc = g.exc, !.rt = "bulk_raised", !.md5 = m]]
               /\ UNCHANGED tweets
          ELSE \E rejected \in SUBSET (1..Len(g.out)) :
                 /\ tweets' = BulkApply(tweets, g.out, rejected, Len(g.out))
                 /\ run' = [run EXCEPT ![w] = [r EXCEPT !.pc = "record",
                               !.rt = "bulk_returned", !.md5 = m,
                               !.errors = rejected, !.ops = @ + 1,
                               !.bulks = @ + 1]]
    /\ UNCHANGED <<content, gen, registry, api, cmd>>

\* Lines 324-339, then the walker's count of the file.
Record(w) ==
    /\ run[w].pc = "record"
    /\ LET r == run[w] IN
       IF RecordTweetsRaises(r.md5, r.etag)
       THEN /\ run' = [run EXCEPT ![w] = [r EXCEPT !.pc = "crashed",
                          !.exc = "AttributeError",
                          !.rt = "raised_after_bulk"]]
            /\ UNCHANGED registry
       ELSE /\ registry' = RecordFile(registry, CurrentName(r), r.md5, r.etag)
            /\ run' = [run EXCEPT ![w] =
                         Counted([r EXCEPT !.rt = "returned", !.errors = {},
                                           !.ops = @ + 1, !.frecs = @ + 1])]
    /\ UNCHANGED <<content, gen, tweets, api, cmd>>

\* A registry left by earlier use of record_tweets: empty, or holding the
\* record of d/sample-1.gz under the local walker's fingerprint.
SeedRegistries ==
    {{}, RecordFile({}, SampleName("1"), MD5Hex(Join(DirD, SampleName("1"))),
                    <<"e", "1">>)}

Init ==
    /\ content = <<>>
    /\ gen = GenInit
    /\ registry \in SeedRegistries
    /\ tweets = {}
    /\ run = [w \in Runs |-> IdleRun]
    /\ api = <<>>
    /\ cmd = <<>>

Next ==
    \E w \in Runs :
        \/ \E dirpath \in Dirpaths, k \in 0..MaxCap : StartLocal(w, dirpath, k)
        \/ \E k \in 0..MaxCap, key_id \in EnvValues, secret \in EnvValues :
              StartBucket(w, k, key_id, secret)
        \/ LocalDone(w)
        \/ LocalNextDir(w)
        \/ LocalOtherName(w)
        \/ LocalCheck(w)
        \/ BucketDone(w)
        \/ BucketCheck(w)
        \/ FetchCorrupt(w)
        \/ Ingest(w)
        \/ Record(w)

Spec == Init /\ [][Next]_vars

(***************************************************************************)
(* SpecApi: record_tweets and already_indexed called directly, with md5    *)
(* and etag values of any letter case, or None.                            *)
(*   api.regMd5, api.regEtag: the md5 and etag arguments of the            *)
(*       record_tweets calls that returned                                 *)
(*   api.asked: the last call was already_indexed(api.md5, api.etag) and   *)
(*       returned api.result                                               *)
(***************************************************************************)
FpArgs == {None, <<"a", "b">>, <<"A", "B">>, <<"c", "d">>}

ApiFile == <<"t", "/">> \o SampleName("1")

InitApi ==
    /\ content = <<TweetLine1>>
    /\ gen = GenInit
    /\ registry = {}
    /\ tweets = {}
    /\ run = <<>>
    /\ api = [regMd5 |-> {}, regEtag |-> {}, rt |-> "none", asked |-> FALSE,
              md5 |-> None, etag |-> None, result |-> FALSE]
    /\ cmd = <<>>

\* record_tweets(filepath, md5, etag, gen_tweets(filepath, file_contents))
ApiRecordTweets(md5, etag) ==
    LET g == GenRun(ApiFile, content, GenInit) IN
    /\ \E rejected \in SUBSET (1..Len(g.out)) :
          tweets' = BulkApply(tweets, g.out, rejected, Len(g.out))
    /\ IF RecordTweetsRaises(md5, etag)
       THEN /\ api' = [api EXCEPT !.rt = "raised_after_bulk", !.asked = FALSE]
            /\ UNCHANGED registry
       ELSE /\ registry' = RecordFile(registry, ApiFile, md5, etag)
            /\ api' = [api EXCEPT !.rt = "returned", !.asked = FALSE,
                         !.regMd5 = IF Truthy(md5) THEN @ \cup {md5} ELSE @,
                         !.regEtag = IF Truthy(etag) THEN @ \cup {etag} ELSE @]
    /\ UNCHANGED <<content, gen, run, cmd>>

\* already_indexed(md5, etag)
ApiAlreadyIndexed(md5, etag) ==
    /\ api' = [api EXCEPT !.asked = TRUE, !.md5 = md5, !.etag = etag,
                          !.result = AlreadyIndexed(registry, md5, etag)]
    /\ UNCHANGED <<content, gen, registry, tweets, run, cmd>>

NextApi ==
    \E md5 \in FpArgs, etag \in FpArgs :
        \/ ApiRecordTweets(md5, etag)
        \/ ApiAlreadyIndexed(md5, etag)

SpecApi == InitApi /\ [][NextApi]_vars

(***************************************************************************)
(* SpecQuery: the query command.  A Python dict is a function from its     *)
(* keys; a key that was never set is not in its DOMAIN.                    *)
(*   cmd.args: the parsed arguments (args.text ... args.csv), or the       *)
(*       entries of the --file object for the six query fields             *)
(*   cmd.query: what construct_query returned                              *)
(*   cmd.res: the name res of line 418, Unbound until it is assigned       *)
(*   cmd.search: the search that ran, with from_ and size as passed        *)
(*   cmd.out: where the hits were rendered; cmd.summary: the match count   *)
(*       was printed                                                       *)
(***************************************************************************)
QText == <<"t">>

DateFrom == <<"d", "1">>

DateTo == <<"d", "2">>

\* None: the option is absent; empty values come from a --file object or
\* from an empty command line value.
TextValues == {None, <<>>, QText}

DateFromValues == {None, <<>>, DateFrom}

DateToValues == {None, <<>>, DateTo}

ListValues == {None, <<>>, <<(<<"a">>), (<<"b">>)>>}

CsvValues == {None, <<"o">>}

Starts == {1, 2}

Sizes == {1, 10}

QueryArgs ==
    [text : TextValues, date_from : DateFromValues, date_to : DateToValues,
     mentions : ListValues, hashtags : ListValues, users : ListValues,
     all : BOOLEAN, csv : CsvValues, start : Starts, size : Sizes]

AddTermsAlways(must, field, values) ==
    Append(must, [terms |-> field :> values])

\* Lines 205-224: one terms clause for a field whose list is not empty.
AddTerms(must, field, values) ==
    IF Truthy(values)
    THEN Append(must, [terms |-> field :> values])
    ELSE must

CreatedAtBothBounds(date_from, date_to) ==
    ("gte" :> date_from) @@ ("lte" :> date_to)

\* Lines 233-236: the dict under "created_at".
CreatedAt(date_from, date_to) ==
    (IF Truthy(date_from) THEN "gte" :> date_from ELSE <<>>)
    @@ (IF Truthy(date_to) THEN "lte" :> date_to ELSE <<>>)

\* Lines 227-238.
AddRange(must, date_from, date_to) ==
    IF Truthy(date_from) \/ Truthy(date_to)
    THEN Append(must, [range |-> [created_at |-> CreatedAt(date_from, date_to)]])
    ELSE must

\* Lines 186-244.
ConstructQuery(text, date_from, date_to, user_mentions, hashtags, users) ==
    LET must == AddRange(
                  AddTerms(
                    AddTerms(
                      AddTerms(<<>>, "user_mentions", user_mentions),
                      "hashtags", hashtags),
                    "screen_name", users),
                  date_from, date_to)
        filter == "filter" :> [bool |-> [must |-> must]]
        q == IF Truthy(text)
             THEN filter @@ ("query" :> [match |-> [text |-> text]])
             ELSE filter
    IN [query |-> [filtered |-> q]]

InitQuery ==
    /\ content = <<>>
    /\ gen = GenInit
    /\ registry = {}
    /\ tweets = {}
    /\ run = <<>>
    /\ api = <<>>
    /\ cmd \in [pc : {"parsed"}, args : QueryArgs, query : {<<>>},
                res : {Unbound}, search : {[kind |-> "none", from |-> 0, size |-> 0]},
                out : {"none"}, summary : {FALSE}, exc : {"none"}]

\* Lines 402-414.
QueryConstruct ==
    /\ cmd.pc = "parsed"
    /\ cmd' = [cmd EXCEPT !.pc = "search",
                 !.query = ConstructQuery(cmd.args.text, cmd.args.date_from,
                                          cmd.args.date_to, cmd.args.mentions,
                                          cmd.args.hashtags, cmd.args.users)]
    /\ UNCHANGED <<content, gen, registry, tweets, run, api>>

\* Lines 415-419: search_scan returns the hits; search_pagination returns
\* the response, which is bound to res.
QuerySearch ==
    /\ cmd.pc = "search"
    /\ cmd' = IF cmd.args.all
              THEN [cmd EXCEPT !.pc = "render",
                               !.search = [kind |-> "scan", from |-> 0, size |-> 0]]
              ELSE [cmd EXCEPT !.pc = "render", !.res = [hits |-> "response"],
                               !.search = [kind |-> "pagination",
                                           from |-> cmd.args.start - 1,
                                           size |-> cmd.args.size]]
    /\ UNCHANGED <<content, gen, registry, tweets, run, api>>

\* Lines 420-425.  Line 424 reads res, which no line has assigned when
\* args.all is set.
QueryRender ==
    /\ cmd.pc = "render"
    /\ cmd' = IF Truthy(cmd.args.csv)
              THEN [cmd EXCEPT !.pc = "done", !.out = "csv"]
              ELSE IF cmd.res = Unbound
                   THEN [cmd EXCEPT !.pc = "crashed", !.out = "console",
                                    !.exc = "NameError"]
                   ELSE [cmd EXCEPT !.pc = "done", !.out = "console",
                                    !.summary = TRUE]
    /\ UNCHANGED <<content, gen, registry, tweets, run, api>>

NextQuery == QueryConstruct \/ QuerySearch \/ QueryRender

SpecQuery == InitQuery /\ [][NextQuery]_vars

(***************************************************************************)
(* Claims about the walkers, record_tweets and already_indexed.            *)
(***************************************************************************)
\* C2: a record_tweets call whose bulk write returned goes on to write the
\* file record before it ends: it never ends by an exception after the bulk
\* write, and a call that returned has written a file record.
C2_FileRecordAfterBulk ==
    \A w \in Runs :
        /\ run[w].rt # "raised_after_bulk"
        /\ run[w].rt = "returned" => run[w].frecs >= 1

\* C3: of two index_dir runs over d, without max_files, the second started
\* after the first ended, the first ends normally and the second makes no
\* bulk write and writes no file record.
C3_RerunIdempotent ==
    \A v, w \in Runs :
        ( /\ v \in run[w].after
          /\ run[v].kind = "local" /\ run[w].kind = "local"
          /\ run[v].dir = DirD /\ run[w].dir = DirD
          /\ run[v].max = 0 /\ run[w].max = 0 )
        => /\ run[v].pc = "done"
           /\ run[w].bulks = 0
           /\ run[w].frecs = 0

\* The fingerprint of the file a walker is about to check is held by a
\* document of the file registry.
AtFile(r) ==
    /\ r.pc = "walk"
    /\ IF r.kind = "local"
       THEN /\ r.d <= Len(Tree(r))
            /\ r.f <= Len(Tree(r)[r.d].files)
            /\ Matches(CurrentName(r))
       ELSE r.f <= Len(BucketList)

FingerprintRegistered(r) ==
    IF r.kind = "local"
    THEN LET fp == MD5Hex(Join(Tree(r)[r.d].root, CurrentName(r))) IN
         \E doc \in registry :
            "md5" \in DOMAIN doc.src /\ doc.src.md5 \in {JStr(fp), JArr(<<fp>>)}
    ELSE LET fp == StripQuotes(BucketList[r.f].etag) IN
         \E doc \in registry :
            "etag" \in DOMAIN doc.src /\ doc.src.etag = JStr(fp)

\* C5: in both walkers, a step at a file whose fingerprint is in the registry
\* makes no bulk write and no file-record write, counts the file as skipped
\* and leaves the walker at the head of its loop (or done, by max_files).
C5_RegisteredFileSkipped ==
    [][\A w \in Runs :
         (AtFile(run[w]) /\ FingerprintRegistered(run[w]) /\ run'[w] # run[w])
         => /\ run'[w].bulks = run[w].bulks
            /\ run'[w].frecs = run[w].frecs
            /\ run'[w].skipped = run[w].skipped + 1
            /\ \/ run'[w].pc = "done"
               \/ /\ run'[w].pc = "walk"
                  /\ <<run'[w].d, run'[w].f>> # <<run[w].d, run[w].f>>
            /\ registry' = registry
            /\ tweets' = tweets]_vars

\* Both walkers have skipped a file as already indexed.
C5_Witness ==
    /\ \E w \in Runs : run[w].kind = "local" /\ run[w].skipped >= 1
    /\ \E w \in Runs : run[w].kind = "bucket" /\ run[w].skipped >= 1

\* C7: the local walker's fingerprint is a function of the file's content:
\* two files with equal content have equal fingerprints.
C7_FingerprintOfContent ==
    \A v, w \in Runs :
        ( /\ run[v].kind = "local" /\ run[w].kind = "local"
          /\ run[v].md5 # None /\ run[w].md5 # None
          /\ DiskData(run[v].path) = DiskData(run[w].path) )
        => run[v].md5 = run[w].md5

FingerprintsOf(doc) ==
    (IF "md5" \in DOMAIN doc.src
     THEN {<<"md5", Lower(doc.src.md5.v[i])>> : i \in 1..Len(doc.src.md5.v)}
     ELSE {})
    \cup
    (IF "etag" \in DOMAIN doc.src
     THEN {<<"etag", Lower(doc.src.etag.v)>>}
     ELSE {})

\* C9: under any interleaving of two walker runs, no two file records of the
\* registry hold the same md5 or the same etag, compared after lower-casing.
C9_OneRecordPerFingerprint ==
    \A d1, d2 \in registry :
        FingerprintsOf(d1) \cap FingerprintsOf(d2) # {} => d1 = d2

\* Two bucket runs have both ingested the first object and written its file
\* record: neither saw the other's record at its duplicate check.
C9_Witness ==
    /\ \A w \in Runs :
          /\ run[w].kind = "bucket"
          /\ run[w].frecs >= 1
          /\ run[w].skipped = 0
    /\ Cardinality(registry) = 1

\* C10: already_indexed returns true exactly when the md5 it is given, or the
\* etag it is given, equals up to letter case the md5 (the etag) of a
\* record_tweets call that returned.
C10_DetectsRegisteredAnyCase ==
    api.asked =>
        api.result =
            ( \/ /\ Truthy(api.md5)
                 /\ \E F \in api.regMd5 : Lower(F) = Lower(api.md5)
              \/ /\ Truthy(api.etag)
                 /\ \E F \in api.regEtag : Lower(F) = Lower(api.etag) )

\* C11: a walk_bucket run with either credential value unset or empty has
\* failed with the configuration error and has made no call to the storage
\* service or the index, and written nothing.
C11_NoCallBeforeConfigError ==
    \A w \in Runs :
        ( /\ run[w].kind = "bucket"
          /\ \E i \in 1..2 : run[w].env[i] \in {None, <<>>} )
        => /\ run[w].pc = "crashed"
           /\ run[w].exc = "Exception"
           /\ run[w].ops = 0
           /\ run[w].bulks = 0 /\ run[w].frecs = 0 /\ run[w].skipped = 0

\* A bucket run given a key id and an empty secret has failed.
C11_Witness ==
    \E w \in Runs :
        /\ run[w].kind = "bucket"
        /\ run[w].env = <<(<<"k">>), (<<>>)>>
        /\ run[w].pc = "crashed"

\* C12: a walker whose read of an archive failed has gone on to the next
\* file: it has not ended by the exception of the read.
C12_CorruptFileNotFatal ==
    \A w \in Runs :
        ~(run[w].pc = "crashed" /\ run[w].exc \in {"IOError", "zlib.error"})

\* The document a bulk action writes.
DocOf(a) == [id |-> a._id, src |-> a._source]

\* C15: the index never holds two tweet documents with one id, and after a
\* bulk write every id among the written actions has the document of the
\* last action written for it, whatever the index held for that id before;
\* the documents of the other ids are as they were.
C15_OneDocPerIdLastWins ==
    /\ [](\A d1 \in tweets, d2 \in tweets : d1.id = d2.id => d1 = d2)
    /\ [][\A w \in Runs :
            (run[w].pc = "fetch" /\ run'[w].pc = "record") =>
              LET acts == Actions(run[w])
                  written == (1..Len(acts)) \ run'[w].errors
              IN /\ \A i \in written :
                       (\A j \in written : j > i => acts[j]._id # acts[i]._id)
                       => DocOf(acts[i]) \in tweets'
                 /\ \A d \in tweets' :
                       \/ \E i \in written : d = DocOf(acts[i])
                       \/ /\ d \in tweets
                          /\ \A i \in written : acts[i]._id # d.id]_vars

\* Two runs wrote the same tweet id from two different files, nothing was
\* rejected, and the index holds the document of the later write.
C15_Witness ==
    \E w1 \in Runs, w2 \in Runs :
        /\ run[w1].rt = "raised_after_bulk" /\ run[w1].errors = {}
        /\ run[w2].pc = "record" /\ run[w2].errors = {}
        /\ run[w1].kind = "local" /\ run[w2].kind = "local"
        /\ run[w1].path # run[w2].path
        /\ \E i \in 1..Len(Actions(run[w1])), j \in 1..Len(Actions(run[w2])) :
              /\ Actions(run[w1])[i]._id = Actions(run[w2])[j]._id
              /\ DocOf(Actions(run[w2])[j]) \in tweets
              /\ DocOf(Actions(run[w1])[i]) \notin tweets

\* C16: a run reaches the read and the bulk write of a file only from a
\* duplicate check of that file that returned False, and the file-record
\* write only from the bulk write of that file having returned; the file
\* registry changes only in that last step, so a run that stops during the
\* extraction or the bulk write leaves the registry as it was.
C16_CheckThenBulkThenRecord ==
    /\ [](\A w \in Runs : run[w].frecs <= run[w].bulks)
    /\ [][/\ registry' # registry =>
                \E w \in Runs : /\ run[w].pc = "record"
                                /\ run[w].rt = "bulk_returned"
                                /\ run'[w].frecs = run[w].frecs + 1
          /\ \A w \in Runs :
                /\ run'[w].frecs # run[w].frecs =>
                      run[w].pc = "record" /\ run[w].rt = "bulk_returned"
                /\ (run[w].pc # "record" /\ run'[w].pc = "record") =>
                      /\ run[w].pc = "fetch"
                      /\ run'[w].bulks = run[w].bulks + 1
                      /\ run'[w].path = run[w].path
                      /\ registry' = registry
                /\ (run[w].pc # "fetch" /\ run'[w].pc = "fetch") =>
                      /\ run[w].pc = "walk"
                      /\ ~AlreadyIndexed(registry, run'[w].md5, run'[w].etag)
                /\ (run[w].pc = "fetch" /\ run'[w].pc = "crashed") =>
                      /\ registry' = registry
                      /\ run'[w].frecs = run[w].frecs]_vars

\* One run has written a file record after its bulk write, another has
\* stopped during the extraction of a file.
C16_Witness ==
    \E w1 \in Runs, w2 \in Runs :
        /\ run[w1].frecs >= 1 /\ run[w1].bulks >= 1
        /\ run[w2].pc = "crashed" /\ run[w2].rt = "bulk_raised"

\* C18: in a walk_bucket run that passed the credentials test, file_counter
\* is the number of objects ingested (record_tweets returned) or skipped as
\* already indexed, objects that failed to decompress not among them; with
\* max_files = k > 0 the walk has stopped exactly when that number reached
\* k, so at most k objects are bulk-written or skipped; with max_files 0
\* (or None) the walk stops only at the end of the listing.
C18_BucketCap ==
    \A w \in Runs :
        (run[w].kind = "bucket" /\ run[w].pc \in {"walk", "fetch", "record", "done"})
        => LET r == run[w] IN
           /\ r.counter = r.frecs + r.skipped
           /\ r.max > 0 =>
                 /\ r.bulks + r.skipped <= r.max
                 /\ r.counter >= r.max => r.pc = "done"
                 /\ (r.pc = "done" /\ r.f <= Len(BucketList)) =>
                       r.counter = r.max
           /\ (r.max = 0 /\ r.pc = "done") => r.f > Len(BucketList)

\* A run with max_files = 2 has stopped at the third object: the first was
\* ingested, the second failed to decompress, the third was skipped.
C18_Witness ==
    \E w \in Runs :
        /\ run[w].kind = "bucket" /\ run[w].max = 2 /\ run[w].pc = "done"
        /\ run[w].frecs = 1 /\ run[w].skipped = 1 /\ run[w].f = 3
        /\ ~Gunzip(BucketList[2].data).ok

(***************************************************************************)
(* Claims about construct_query and the query command.                     *)
(***************************************************************************)
Must == cmd.query.query.filtered.filter.bool.must

\* The number of clauses of the filter list that are a terms clause on field
TermsClauses(field) ==
    Cardinality({i \in 1..Len(Must) :
                    /\ DOMAIN Must[i] = {"terms"}
                    /\ DOMAIN Must[i].terms = {field}})

RangeClauses == {i \in 1..Len(Must) : DOMAIN Must[i] = {"range"}}

Given(x) == x # None /\ Len(x) > 0

\* C13: the filter list of the query construct_query returned holds one
\* terms clause for each of user_mentions, hashtags and users that is not
\* absent or empty and none for the others, one range clause exactly when
\* date_from or date_to is given, and nothing else; the match clause is
\* there exactly when text is given.  Given means a value that is not empty.
C13_ClausesOfTheQuery ==
    cmd.pc # "parsed" =>
        LET a == cmd.args
            n(x) == IF Given(x) THEN 1 ELSE 0
            r == IF Given(a.date_from) \/ Given(a.date_to) THEN 1 ELSE 0
        IN /\ TermsClauses("user_mentions") = n(a.mentions)
           /\ TermsClauses("hashtags") = n(a.hashtags)
           /\ TermsClauses("screen_name") = n(a.users)
           /\ Cardinality(RangeClauses) = r
           /\ Len(Must) = n(a.mentions) + n(a.hashtags) + n(a.users) + r
           /\ \A i \in 1..Len(Must) :
                 DOMAIN Must[i] = {"terms"} =>
                    \/ Must[i].terms = "user_mentions" :> a.mentions
                    \/ Must[i].terms = "hashtags" :> a.hashtags
                    \/ Must[i].terms = "screen_name" :> a.users
           /\ "query" \in DOMAIN cmd.query.query.filtered <=> Given(a.text)
           /\ Given(a.text) =>
                 cmd.query.query.filtered.query = [match |-> [text |-> a.text]]

\* A query was built from one empty list, one absent list, one list of two
\* values, an upper date and an empty text: two clauses and no match.
C13_Witness ==
    /\ cmd.pc = "done"
    /\ cmd.args.mentions = <<>> /\ cmd.args.hashtags = None
    /\ Len(cmd.args.users) = 2 /\ cmd.args.date_to = DateTo
    /\ cmd.args.text = <<>>
    /\ Len(Must) = 2

\* C14: the range clause has gte = date_from exactly when date_from is given
\* and lte = date_to exactly when date_to is given.
C14_RangeBounds ==
    cmd.pc # "parsed" =>
        \A i \in RangeClauses :
            LET ca == Must[i].range.created_at IN
            /\ DOMAIN Must[i].range = {"created_at"}
            /\ DOMAIN ca \subseteq {"gte", "lte"}
            /\ "gte" \in DOMAIN ca <=> Given(cmd.args.date_from)
            /\ "lte" \in DOMAIN ca <=> Given(cmd.args.date_to)
            /\ Given(cmd.args.date_from) => ca["gte"] = cmd.args.date_from
            /\ Given(cmd.args.date_to) => ca["lte"] = cmd.args.date_to

\* A range clause built from date_from alone: a lower bound and no upper.
C14_Witness ==
    /\ cmd.pc = "done"
    /\ cmd.args.date_from = DateFrom /\ cmd.args.date_to = None
    /\ \E i \in RangeClauses : DOMAIN Must[i].range.created_at = {"gte"}

\* C17: a query command given --all has run the scan and not the paginated
\* search, and does not end by an exception, with or without --csv.
C17_AllScansAndFinishes ==
    (cmd.args.all /\ cmd.pc \in {"render", "done", "crashed"})
    => /\ cmd.search.kind = "scan"
       /\ cmd.pc # "crashed"

=============================================================================
